---------------------------- MODULE Spec2Model ----------------------------
(***************************************************************************)
(* A model of sfmutils: the BaseConsumer / ConsumerProducerMixin wrapper   *)
(* of consumer.py, driven by a broker and by the host consume loop, and    *)
(* the BaseResult / Msg classes of result.py, driven by their caller.      *)
(*                                                                         *)
(* Python objects are records with a "kind" field; None is the record      *)
(* None.  Python strings are TLA+ strings, and an absent (None) string     *)
(* argument is the string Absent, so that strings compare with strings.    *)
(***************************************************************************)
EXTENDS Naturals, Integers, Sequences, FiniteSets, TLC

VARIABLES
    mq_config,              \* self.mq_config
    connection,             \* self.connection
    exchange,               \* self.exchange
    message,                \* self.message
    routing_key,            \* self.routing_key
    _producer_connection,   \* self._producer_connection: NoConn or a connection id
    phase,                  \* "init", "consuming", "ended", "aborted"
    session,                \* number of consume sessions started so far
    calls,                  \* the calls get_consumers issued on the session's channel
    outcome,                \* how the last get_consumers ended: "none", "ok", an error
    prefetch,               \* the consumer's QoS prefetch count at the broker (0: no consumer)
    msg,                    \* broker side of each message: "ready", "unacked", "acked"
    pc,                     \* position in _callback: 0 idle, else index in CallbackOrder
    cur,                    \* the message _callback is handling (meaningful when pc > 0)
    running,                \* messages whose on_message call has started and not ended
    hookCalls,              \* per message, how many times on_message was invoked for it
    raised,                 \* messages whose on_message call raised
    conns,                  \* per publish connection id: "none", "connecting", "open", "closed"
    closes,                 \* per publish connection id: number of close() calls
    connSession,            \* per publish connection id: session it was opened in (0: outside any)
    accesses,               \* number of accesses to producer / producer_connection so far
    ends,                   \* number of on_consume_end calls since the last such access
    result_class,           \* the class of the result: its _result_name and _addl_str
    success,                \* BaseResult.success
    started,                \* BaseResult.started
    ended,                  \* BaseResult.ended
    infos,                  \* BaseResult.infos
    warnings,               \* BaseResult.warnings
    errors,                 \* BaseResult.errors
    observed                \* the caller's last call, while the result is as it was then:
                            \* Msg(code, message), bool(result), str(result) or to_map()

consumerVars == <<mq_config, connection, exchange, message, routing_key,
                  _producer_connection, phase, session, calls, outcome, prefetch,
                  msg, pc, cur, running, hookCalls, raised, conns, closes,
                  connSession, accesses, ends>>

resultVars == <<result_class, success, started, ended, infos, warnings, errors,
                observed>>

vars == <<consumerVars, resultVars>>

wrapperVars == <<mq_config, connection, exchange, message, routing_key,
                 _producer_connection>>
callbackVars == <<message, routing_key, pc, cur, running, hookCalls, raised>>
connVars == <<_producer_connection, conns, closes, connSession, accesses, ends>>
brokerVars == <<phase, session, calls, outcome, prefetch, msg>>
configVars == <<mq_config, connection, exchange>>

-----------------------------------------------------------------------------
(* Bounds of the model *)

MaxKeys == 2        \* longest routing-key list of a queue
MaxMsgs == 2        \* messages in the broker's queues
MaxSessions == 2    \* consume sessions (get_consumers calls)
MaxConns == 2       \* publish connections ever cloned
MaxAccesses == 2    \* accesses to producer / producer_connection
MaxEnds == 2        \* on_consume_end calls in a row

-----------------------------------------------------------------------------
(* Values *)

None == [kind |-> "None"]
Absent == "<None>"
NoConn == 0
EXCHANGE == "sfm_exchange"

Truthy(s) == s /= Absent /\ s /= ""

QueueNames == {"q1", "q2"}
RoutingKeys == {"harvest.start.#", "harvest.stop.*"}

RECURSIVE SeqsUpTo(_, _)
SeqsUpTo(S, n) ==
    IF n = 0 THEN {<<>>}
    ELSE LET shorter == SeqsUpTo(S, n - 1)
         IN  shorter \cup {Append(s, x) : s \in {t \in shorter : Len(t) = n - 1}, x \in S}

KeyLists == SeqsUpTo(RoutingKeys, MaxKeys)

QueueMaps == UNION {[Q -> KeyLists] : Q \in SUBSET QueueNames}

MqConfig(host, username, password, exch, queues) ==
    [kind |-> "MqConfig", host |-> host, username |-> username,
     password |-> password, exchange |-> exch, queues |-> queues]

Hosts == {Absent, "", "mq"}
Usernames == {Absent, "", "sfm_user"}
Passwords == {Absent, "", "password"}

AllConfigs ==
    {None} \cup {MqConfig(h, u, p, EXCHANGE, qs) :
                    h \in Hosts, u \in Usernames, p \in Passwords, qs \in QueueMaps}

-----------------------------------------------------------------------------
(* BaseConsumer.__init__ *)

Connection(host, username, password) ==
    [kind |-> "Connection", transport |-> "librabbitmq", hostname |-> host,
     userid |-> username, password |-> password]

Exchange(name) ==
    [kind |-> "Exchange", name |-> name, type |-> "topic", durable |-> TRUE]

\* Faulty variant of ConfigComplete: the password is not looked at.
ConfigCompleteNoPassword(cfg) ==
    /\ cfg /= None
    /\ Truthy(cfg.host)
    /\ Truthy(cfg.username)

\* The condition of the if in __init__: mq_config and host and username and password.
ConfigComplete(cfg) ==
    /\ cfg /= None
    /\ Truthy(cfg.host)
    /\ Truthy(cfg.username)
    /\ Truthy(cfg.password)

\* The fields __init__ assigns, for the mq_config it is given.
BaseConsumerInit(cfg) ==
    IF ConfigComplete(cfg)
    THEN [mq_config |-> cfg,
          connection |-> Connection(cfg.host, cfg.username, cfg.password),
          exchange |-> Exchange(cfg.exchange),
          message |-> None, routing_key |-> None]
    ELSE [mq_config |-> cfg, connection |-> None, exchange |-> None,
          message |-> None, routing_key |-> None]

Msgs == 1 .. MaxMsgs
ConnIds == 1 .. MaxConns

MaxAppends == 3     \* messages appended to the lists of a result

\* A result class: BaseResult itself, or a subclass that implements
\* _result_name and _addl_str.
ResultClass(name, addl) == [_result_name |-> name, _addl_str |-> addl]

BaseResultClass == ResultClass("", "")

NoCall == [op |-> "none"]

\* Faulty variant of BaseResultInit: a new result starts as a failure.
BaseResultInitFailure(cls) ==
    /\ result_class = cls
    /\ success = FALSE
    /\ started = Absent
    /\ ended = Absent
    /\ infos = <<>>
    /\ warnings = <<>>
    /\ errors = <<>>
    /\ observed = NoCall

\* BaseResult.__init__, for an instance of class cls; no call made yet.
BaseResultInit(cls) ==
    /\ result_class = cls
    /\ success = TRUE
    /\ started = Absent
    /\ ended = Absent
    /\ infos = <<>>
    /\ warnings = <<>>
    /\ errors = <<>>
    /\ observed = NoCall

\* The state after BaseConsumer(cfg): nothing declared, no session, the messages
\* waiting in the broker's queues.
ConsumerInit(cfg) ==
    /\ mq_config = BaseConsumerInit(cfg).mq_config
    /\ connection = BaseConsumerInit(cfg).connection
    /\ exchange = BaseConsumerInit(cfg).exchange
    /\ message = BaseConsumerInit(cfg).message
    /\ routing_key = BaseConsumerInit(cfg).routing_key
    /\ _producer_connection = NoConn
    /\ phase = "init"
    /\ session = 0
    /\ calls = <<>>
    /\ outcome = "none"
    /\ prefetch = 0
    /\ msg = [m \in Msgs |-> "ready"]
    /\ pc = 0
    /\ cur = 1
    /\ running = {}
    /\ hookCalls = [m \in Msgs |-> 0]
    /\ raised = {}
    /\ conns = [c \in ConnIds |-> "none"]
    /\ closes = [c \in ConnIds |-> 0]
    /\ connSession = [c \in ConnIds |-> 0]
    /\ accesses = 0
    /\ ends = 0

\* A consumer built from cfg, beside a fresh BaseResult.
InitWith(cfg) == ConsumerInit(cfg) /\ BaseResultInit(BaseResultClass)

-----------------------------------------------------------------------------
(* BaseConsumer.get_consumers *)

ExchangeDeclare(ex) ==
    [op |-> "exchange.declare", exchange |-> ex.name, type |-> ex.type,
     durable |-> ex.durable]

QueueDeclare(q) == [op |-> "queue.declare", queue |-> q, durable |-> TRUE]

QueueBind(q, ex, rk) ==
    [op |-> "queue.bind", queue |-> q, exchange |-> ex.name, routing_key |-> rk]

NewConsumer(qs) ==
    [op |-> "Consumer", queues |-> qs, callbacks |-> <<"_callback">>,
     auto_declare |-> FALSE]

QosPrefetchCount == 1

\* Faulty variant of Qos: no prefetch limit is set (0 is unlimited).
QosUnlimited == [op |-> "basic.qos", prefetch_count |-> 0, apply_global |-> TRUE]

Qos == [op |-> "basic.qos", prefetch_count |-> QosPrefetchCount, apply_global |-> TRUE]

\* Faulty variant of QueueCalls: the last routing key of the list is not bound.
QueueCallsSkipLast(q, keys, ex) ==
    <<QueueDeclare(q)>>
        \o [i \in 1 .. (IF keys = <<>> THEN 0 ELSE Len(keys) - 1) |-> QueueBind(q, ex, keys[i])]

\* Faulty variant of QueueCalls: the queue is bound before it is declared.
QueueCallsBindFirst(q, keys, ex) ==
    [i \in 1 .. Len(keys) |-> QueueBind(q, ex, keys[i])] \o <<QueueDeclare(q)>>

\* Faulty variant of QueueCalls: a queue without routing keys is passed over.
QueueCallsSkipEmpty(q, keys, ex) ==
    IF keys = <<>> THEN <<>>
    ELSE <<QueueDeclare(q)>> \o [i \in 1 .. Len(keys) |-> QueueBind(q, ex, keys[i])]

\* The body of the loop over one queue: declare it, then bind it once per routing key.
QueueCalls(q, keys, ex) ==
    <<QueueDeclare(q)>> \o [i \in 1 .. Len(keys) |-> QueueBind(q, ex, keys[i])]

\* The loop over mq_config.queues.items(), in the order the dict yields them.
RECURSIVE QueuesCalls(_, _, _)
QueuesCalls(order, queues, ex) ==
    IF order = <<>> THEN <<>>
    ELSE QueueCalls(Head(order), queues[Head(order)], ex)
            \o QueuesCalls(Tail(order), queues, ex)

\* Every call of a get_consumers that runs to its end.
GetConsumersCalls(order, queues, ex) ==
    <<ExchangeDeclare(ex)>> \o QueuesCalls(order, queues, ex)
        \o <<NewConsumer(order), Qos>>

\* The orders in which a dict with the key set S can be iterated.
Orders(S) ==
    {o \in [1 .. Cardinality(S) -> S] : \A i, j \in 1 .. Cardinality(S) : o[i] = o[j] => i = j}

\* Faulty variant of get_consumers: without assert self.mq_config, a missing
\* configuration fails at self.mq_config.exchange with an attribute error.
get_consumers_no_assert ==
    /\ phase /= "consuming"
    /\ pc = 0
    /\ session < MaxSessions
    /\ session' = session + 1
    /\ IF mq_config = None
       THEN /\ outcome' = "AttributeError"
            /\ calls' = <<>>
            /\ phase' = "aborted"
            /\ prefetch' = 0
       ELSE IF exchange = None
       THEN /\ outcome' = "TypeError"
            /\ calls' = <<>>
            /\ phase' = "aborted"
            /\ prefetch' = 0
       ELSE \E order \in Orders(DOMAIN mq_config.queues) :
              LET all == GetConsumersCalls(order, mq_config.queues, exchange)
              IN  \E k \in 0 .. Len(all) :
                    /\ calls' = SubSeq(all, 1, k)
                    /\ IF k = Len(all)
                       THEN /\ outcome' = "ok"
                            /\ phase' = "consuming"
                            /\ prefetch' = all[k].prefetch_count
                       ELSE /\ outcome' = "BrokerError"
                            /\ phase' = "aborted"
                            /\ prefetch' = 0
    /\ UNCHANGED <<wrapperVars, msg, callbackVars, connVars>>
    /\ UNCHANGED resultVars

\* get_consumers on a new channel.  assert self.mq_config fails on a missing
\* configuration; self.exchange(channel) fails when exchange is None; any call to
\* the broker may raise, which ends get_consumers after the calls made so far.
get_consumers ==
    /\ phase /= "consuming"
    /\ pc = 0
    /\ session < MaxSessions
    /\ session' = session + 1
    /\ IF mq_config = None
       THEN /\ outcome' = "AssertionError"
            /\ calls' = <<>>
            /\ phase' = "aborted"
            /\ prefetch' = 0
       ELSE IF exchange = None
       THEN /\ outcome' = "TypeError"
            /\ calls' = <<>>
            /\ phase' = "aborted"
            /\ prefetch' = 0
       ELSE \E order \in Orders(DOMAIN mq_config.queues) :
              LET all == GetConsumersCalls(order, mq_config.queues, exchange)
              IN  \E k \in 0 .. Len(all) :
                    /\ calls' = SubSeq(all, 1, k)
                    /\ IF k = Len(all)
                       THEN /\ outcome' = "ok"
                            /\ phase' = "consuming"
                            /\ prefetch' = all[k].prefetch_count
                       ELSE /\ outcome' = "BrokerError"
                            /\ phase' = "aborted"
                            /\ prefetch' = 0
    /\ UNCHANGED <<wrapperVars, msg, callbackVars, connVars>>
    /\ UNCHANGED resultVars

-----------------------------------------------------------------------------
(* Startup alone, over every configuration *)

StartupInit == \E cfg \in AllConfigs : InitWith(cfg)

StartupNext == get_consumers

StartupSpec == StartupInit /\ [][StartupNext]_vars

-----------------------------------------------------------------------------
(* The broker and the end of a session *)

Unacked == {m \in Msgs : msg[m] = "unacked"}

\* The broker hands a waiting message to the registered consumer, within the
\* prefetch window get_consumers set with qos (0: no limit).
Deliver(m) ==
    /\ phase = "consuming"
    /\ msg[m] = "ready"
    /\ prefetch = 0 \/ Cardinality(Unacked) < prefetch
    /\ msg' = [msg EXCEPT ![m] = "unacked"]
    /\ UNCHANGED <<wrapperVars, phase, session, calls, outcome, prefetch,
                   pc, cur, running, hookCalls, raised, conns, closes,
                   connSession, accesses, ends>>
    /\ UNCHANGED resultVars

\* When the channel of a session goes away the broker puts the messages the
\* consumer has not acknowledged back on their queues.
Requeued == [m \in Msgs |-> IF msg[m] = "unacked" THEN "ready" ELSE msg[m]]

\* An exception leaves _callback, which has no handler for it, and ends the
\* session; whether the host then calls on_consume_end is left open
\* (ConsumeEndCall).
Propagate ==
    /\ pc' = 0
    /\ running' = {}
    /\ phase' = "aborted"
    /\ prefetch' = 0

-----------------------------------------------------------------------------
(* BaseConsumer._callback *)

Body(m) == [kind |-> "body", id |-> m]
DeliveryRoutingKey(m) == [kind |-> "routing_key", id |-> m]

\* Faulty variant of CallbackOrder: the message is acknowledged before it is stored.
CallbackOrderAckFirst == <<"ack", "store", "on_message">>

\* Faulty variant of CallbackOrder: the message is acknowledged after on_message.
CallbackOrderAckLast == <<"store", "on_message", "ack">>

\* The statements of _callback, in program order.
CallbackOrder == <<"store", "ack", "on_message">>

Statement(p) == CallbackOrder[p]

\* The position after statement p; 0 once _callback has returned.
Advance(p) == IF p = Len(CallbackOrder) THEN 0 ELSE p + 1

\* Faulty variant of HookCallPc: on_message is started without waiting for it.
HookCallPcAsync(p) == Advance(p)

\* The position while the on_message call of statement p runs: the call is
\* synchronous, _callback stays at p until on_message returns.
HookCallPc(p) == p

\* The consume loop, idle, takes a delivered message and calls _callback with it.
CallbackBegin(m) ==
    /\ phase = "consuming"
    /\ pc = 0
    /\ msg[m] = "unacked"
    /\ m \notin running
    /\ cur' = m
    /\ pc' = 1
    /\ UNCHANGED <<wrapperVars, brokerVars, running, hookCalls, raised,
                   conns, closes, connSession, accesses, ends>>
    /\ UNCHANGED resultVars

\* Faulty variant of Store: the routing key of the delivery is not stored.
StoreBodyOnly ==
    /\ pc > 0
    /\ Statement(pc) = "store"
    /\ message' = Body(cur)
    /\ pc' = Advance(pc)
    /\ UNCHANGED <<configVars, routing_key, connVars, brokerVars, cur, running,
                   hookCalls, raised>>
    /\ UNCHANGED resultVars

\* self.routing_key = message_obj.delivery_info["routing_key"]; self.message = message
Store ==
    /\ pc > 0
    /\ Statement(pc) = "store"
    /\ routing_key' = DeliveryRoutingKey(cur)
    /\ message' = Body(cur)
    /\ pc' = Advance(pc)
    /\ UNCHANGED <<configVars, connVars, brokerVars, cur, running, hookCalls, raised>>
    /\ UNCHANGED resultVars

\* message_obj.ack()
Ack ==
    /\ pc > 0
    /\ Statement(pc) = "ack"
    /\ msg' = [msg EXCEPT ![cur] = "acked"]
    /\ pc' = Advance(pc)
    /\ UNCHANGED <<wrapperVars, phase, session, calls, outcome, prefetch,
                   cur, running, hookCalls, raised, conns, closes,
                   connSession, accesses, ends>>
    /\ UNCHANGED resultVars

\* message_obj.ack() raises.
AckRaises ==
    /\ pc > 0
    /\ Statement(pc) = "ack"
    /\ Propagate
    /\ msg' = Requeued
    /\ UNCHANGED <<wrapperVars, session, calls, outcome, cur, hookCalls, raised,
                   conns, closes, connSession, accesses, ends>>
    /\ UNCHANGED resultVars

\* self.on_message() is called.
OnMessageCall ==
    /\ pc > 0
    /\ Statement(pc) = "on_message"
    /\ cur \notin running
    /\ running' = running \cup {cur}
    /\ hookCalls' = [hookCalls EXCEPT ![cur] = @ + 1]
    /\ pc' = HookCallPc(pc)
    /\ UNCHANGED <<wrapperVars, brokerVars, cur, raised, conns, closes,
                   connSession, accesses, ends>>
    /\ UNCHANGED resultVars

\* on_message returns, and _callback goes on after the call.
OnMessageReturn(m) ==
    /\ m \in running
    /\ running' = running \ {m}
    /\ pc' = IF pc > 0 /\ cur = m /\ Statement(pc) = "on_message" THEN Advance(pc) ELSE pc
    /\ UNCHANGED <<wrapperVars, brokerVars, cur, hookCalls, raised, conns,
                   closes, connSession, accesses, ends>>
    /\ UNCHANGED resultVars

\* on_message raises.
OnMessageRaises(m) ==
    /\ m \in running
    /\ raised' = raised \cup {m}
    /\ Propagate
    /\ msg' = Requeued
    /\ UNCHANGED <<wrapperVars, session, calls, outcome, cur, hookCalls,
                   conns, closes, connSession, accesses, ends>>
    /\ UNCHANGED resultVars

-----------------------------------------------------------------------------
(* ConsumerProducerMixin *)

\* The id the next clone of self.connection gets.
NewConn == CHOOSE c \in ConnIds : conns[c] = "none" /\ \A d \in ConnIds : d < c => conns[d] /= "none"

CurrentSession == IF phase = "consuming" THEN session ELSE 0

\* Faulty variant of producer_connection: the cached connection is not looked at, every
\* access clones.
producer_connection_uncached(established) ==
    IF connection = None
    THEN UNCHANGED <<_producer_connection, conns, closes, connSession>>
    ELSE /\ \E c \in ConnIds : conns[c] = "none"
         /\ IF established
            THEN /\ conns' = [conns EXCEPT ![NewConn] = "open"]
                 /\ connSession' = [connSession EXCEPT ![NewConn] = CurrentSession]
                 /\ _producer_connection' = NewConn
            ELSE /\ conns' = [conns EXCEPT ![NewConn] = "connecting"]
                 /\ UNCHANGED <<_producer_connection, connSession>>
         /\ UNCHANGED closes

\* Faulty variant of producer_connection: the clone is cached before
\* ensure_connection, so a clone that could not be established stays cached.
producer_connection_cached_early(established) ==
    IF _producer_connection = NoConn
    THEN IF connection = None
         THEN UNCHANGED <<_producer_connection, conns, closes, connSession>>
         ELSE /\ \E c \in ConnIds : conns[c] = "none"
              /\ _producer_connection' = NewConn
              /\ IF established
                 THEN /\ conns' = [conns EXCEPT ![NewConn] = "open"]
                      /\ connSession' = [connSession EXCEPT ![NewConn] = CurrentSession]
                 ELSE /\ conns' = [conns EXCEPT ![NewConn] = "connecting"]
                      /\ UNCHANGED connSession
              /\ UNCHANGED closes
    ELSE UNCHANGED <<_producer_connection, conns, closes, connSession>>

\* The producer_connection property, read once; established tells whether
\* ensure_connection succeeds.  Without self.connection the clone raises.
producer_connection(established) ==
    IF _producer_connection = NoConn
    THEN IF connection = None
         THEN UNCHANGED <<_producer_connection, conns, closes, connSession>>
         ELSE /\ \E c \in ConnIds : conns[c] = "none"
              /\ IF established
                 THEN /\ conns' = [conns EXCEPT ![NewConn] = "open"]
                      /\ connSession' = [connSession EXCEPT ![NewConn] = CurrentSession]
                      /\ _producer_connection' = NewConn
                 ELSE /\ conns' = [conns EXCEPT ![NewConn] = "connecting"]
                      /\ UNCHANGED <<_producer_connection, connSession>>
              /\ UNCHANGED closes
    ELSE UNCHANGED <<_producer_connection, conns, closes, connSession>>

\* Faulty variant of on_consume_end: _producer_connection is not reset to None.
on_consume_end_no_reset ==
    IF _producer_connection /= NoConn
    THEN /\ conns' = [conns EXCEPT ![_producer_connection] = "closed"]
         /\ closes' = [closes EXCEPT ![_producer_connection] = @ + 1]
         /\ UNCHANGED <<_producer_connection, connSession>>
    ELSE UNCHANGED <<_producer_connection, conns, closes, connSession>>

\* Faulty variant of on_consume_end: the connection is dropped without close().
on_consume_end_no_close ==
    IF _producer_connection /= NoConn
    THEN /\ _producer_connection' = NoConn
         /\ UNCHANGED <<conns, closes, connSession>>
    ELSE UNCHANGED <<_producer_connection, conns, closes, connSession>>

\* on_consume_end(connection, channel)
on_consume_end ==
    IF _producer_connection /= NoConn
    THEN /\ conns' = [conns EXCEPT ![_producer_connection] = "closed"]
         /\ closes' = [closes EXCEPT ![_producer_connection] = @ + 1]
         /\ _producer_connection' = NoConn
         /\ UNCHANGED connSession
    ELSE UNCHANGED <<_producer_connection, conns, closes, connSession>>

\* self.producer is used (to publish) by on_message while it runs, or by the
\* owner of the consumer while no callback runs.
Publish ==
    /\ running /= {} \/ pc = 0
    /\ accesses < MaxAccesses
    /\ accesses' = accesses + 1
    /\ ends' = 0
    /\ \E established \in BOOLEAN : producer_connection(established)
    /\ UNCHANGED <<configVars, message, routing_key, brokerVars, pc, cur,
                   running, hookCalls, raised>>
    /\ UNCHANGED resultVars

\* The consume loop of a session ends normally: on_consume_end is called and the
\* channel is closed.
ConsumeEnd ==
    /\ phase = "consuming"
    /\ pc = 0
    /\ running = {}
    /\ on_consume_end
    /\ ends' = 1
    /\ phase' = "ended"
    /\ prefetch' = 0
    /\ msg' = Requeued
    /\ UNCHANGED <<configVars, message, routing_key, session, calls, outcome,
                   pc, cur, running, hookCalls, raised, accesses>>
    /\ UNCHANGED resultVars

\* on_consume_end is called outside a running session: after a session that an
\* exception ended, or once more after the end of a session.
ConsumeEndCall ==
    /\ phase \in {"ended", "aborted"}
    /\ pc = 0
    /\ ends < MaxEnds
    /\ on_consume_end
    /\ ends' = ends + 1
    /\ UNCHANGED <<configVars, message, routing_key, brokerVars, pc, cur,
                   running, hookCalls, raised, accesses>>
    /\ UNCHANGED resultVars

-----------------------------------------------------------------------------
(* The consumer in use *)

SessionConfigs ==
    {None,
     MqConfig("mq", "sfm_user", "", EXCHANGE, [q \in {"q1"} |-> <<"harvest.start.#">>]),
     MqConfig("mq", "sfm_user", "password", EXCHANGE,
              [q \in {"q1"} |-> <<"harvest.start.#", "harvest.stop.*">>])}

Init == \E cfg \in SessionConfigs : InitWith(cfg)

Next ==
    \/ get_consumers
    \/ \E m \in Msgs : Deliver(m)
    \/ \E m \in Msgs : CallbackBegin(m)
    \/ Store
    \/ Ack
    \/ AckRaises
    \/ OnMessageCall
    \/ \E m \in Msgs : OnMessageReturn(m)
    \/ \E m \in Msgs : OnMessageRaises(m)
    \/ Publish
    \/ ConsumeEnd
    \/ ConsumeEndCall

Spec == Init /\ [][Next]_vars

-----------------------------------------------------------------------------
(* Properties of _callback *)

\* C1: in _callback the body and the routing key of the delivery are stored first,
\* then the message is acknowledged, then on_message is invoked: a message that
\* _callback has acknowledged is the stored one, and on_message has only been
\* invoked for, and only runs for, acknowledged messages.
CallbackStoresAcksThenInvokes ==
    /\ pc > 0 /\ msg[cur] = "acked" =>
          message = Body(cur) /\ routing_key = DeliveryRoutingKey(cur)
    /\ \A m \in Msgs : m \in running \/ hookCalls[m] > 0 => msg[m] = "acked"

\* on_message runs for a message that is stored and acknowledged.
CallbackInHookWitness ==
    \E m \in Msgs :
        /\ m \in running
        /\ msg[m] = "acked"
        /\ message = Body(m)
        /\ routing_key = DeliveryRoutingKey(m)

\* C2: at-most-once processing: on_message is invoked at most once per message; a
\* message whose on_message raised is acknowledged (so the broker, which requeues
\* only unacknowledged messages, never redelivers it), and the step in which
\* on_message raises changes no field of the wrapper.
AtMostOnceProcessing ==
    /\ [](\A m \in Msgs : hookCalls[m] <= 1 /\ (m \in raised => msg[m] = "acked"))
    /\ [][raised' /= raised => UNCHANGED wrapperVars]_vars
    /\ [][\A m \in raised : msg'[m] = "acked" /\ hookCalls'[m] = hookCalls[m]]_vars

\* A later session consumes after on_message raised for a message in an earlier
\* one, and that message was not handled again.
FailedHookNotRedeliveredWitness ==
    \E m \in Msgs :
        /\ m \in raised
        /\ hookCalls[m] = 1
        /\ session = 2
        /\ phase = "consuming"
        /\ \E n \in Msgs : n /= m /\ hookCalls[n] = 1

\* C6: prefetch is exactly 1: a consuming session has the prefetch count 1 set by
\* qos, applied globally, and at most one delivered message is unacknowledged.
PrefetchIsOne ==
    /\ Cardinality(Unacked) <= 1
    /\ phase = "consuming" =>
          /\ prefetch = 1
          /\ calls[Len(calls)].op = "basic.qos"
          /\ calls[Len(calls)].apply_global

\* A second message waits at the broker while the first is unacknowledged.
PrefetchWithholdsWitness ==
    \E m, n \in Msgs :
        /\ m /= n
        /\ msg[m] = "unacked"
        /\ msg[n] = "ready"
        /\ pc > 0 /\ cur = m

\* C7: no concurrent handler invocations: at most one on_message call is running,
\* and it is the call of the _callback in progress, so the hook of a second
\* message starts only after the hook of the first has returned.
NoConcurrentHandlers ==
    /\ Cardinality(running) <= 1
    /\ \A m \in running : pc > 0 /\ cur = m

\* The first message is acknowledged and its hook runs, the second is already
\* delivered and waits.
SecondMessageWaitsWitness ==
    \E m, n \in Msgs :
        /\ m /= n
        /\ m \in running
        /\ msg[m] = "acked"
        /\ msg[n] = "unacked"
        /\ hookCalls[n] = 0

-----------------------------------------------------------------------------
(* Properties of the publish connection *)

Opened(c) == conns[c] \in {"open", "closed"}

\* C3: the publish connection is closed exactly once: no connection is closed
\* twice, a connection is closed exactly when close() was called on it once, after
\* on_consume_end no connection is open or cached, with no access at all
\* on_consume_end closes and creates nothing, and a repeated on_consume_end closes
\* nothing.
PublishConnectionClosedOnce ==
    /\ \A c \in ConnIds :
          /\ closes[c] <= 1
          /\ conns[c] = "closed" <=> closes[c] = 1
          /\ ends >= 1 => conns[c] /= "open"
          /\ ends >= 1 /\ accesses = 0 => conns[c] = "none"
    /\ ends >= 1 => _producer_connection = NoConn

\* Two accesses used one connection, and on_consume_end ran twice: one close.
ClosedOnceAfterTwoEndsWitness ==
    /\ ends = 2
    /\ accesses = 2
    /\ conns[1] = "closed"
    /\ closes[1] = 1
    /\ conns[2] = "none"

\* C4: the publish connection is created lazily and reused: before the first
\* access there is none; a cached connection is an established clone of
\* self.connection; an access that finds a cached connection changes nothing; and
\* no two connections are opened in one consume session.
PublishConnectionLazyAndReused ==
    /\ [](accesses = 0 =>
            _producer_connection = NoConn /\ \A c \in ConnIds : conns[c] = "none")
    /\ [](_producer_connection /= NoConn =>
            conns[_producer_connection] = "open" /\ connection /= None)
    /\ [](\A c, d \in ConnIds :
            Opened(c) /\ Opened(d) /\ connSession[c] = connSession[d]
                /\ connSession[c] /= 0 => c = d)
    /\ [][accesses' /= accesses /\ _producer_connection /= NoConn =>
            UNCHANGED <<_producer_connection, conns, closes, connSession>>]_vars

\* Two accesses in one session, one connection.
ReusedInSessionWitness ==
    /\ phase = "consuming"
    /\ accesses = 2
    /\ _producer_connection = 1
    /\ conns[1] = "open"
    /\ connSession[1] = session
    /\ conns[2] = "none"

ConnTransitions ==
    {<<"none", "connecting">>, <<"none", "open">>, <<"open", "closed">>}

\* C5 as stated: closed is terminal for the consumer, no publish connection is
\* opened once one has been closed at session end.
NoOpenAfterSessionEndClose ==
    [][phase = "ended" /\ (\E c \in ConnIds : conns[c] = "closed") =>
            \A d \in ConnIds : conns'[d] = "open" => conns[d] = "open"]_vars

\* C5, amended: each publish connection follows only none -> connecting -> open ->
\* closed; it becomes open only in an access to producer / producer_connection; it
\* is closed only by on_consume_end, at most once, and never reopened; an open
\* connection is the cached one, and on_consume_end leaves none open.
ConnectionLifecycle ==
    /\ [][\A c \in ConnIds :
            /\ conns'[c] /= conns[c] => <<conns[c], conns'[c]>> \in ConnTransitions
            /\ conns'[c] = "open" /\ conns[c] /= "open" => accesses' = accesses + 1
            /\ conns'[c] = "closed" /\ conns[c] /= "closed" => ends' >= 1 /\ ends' /= ends
         ]_vars
    /\ [](\A c \in ConnIds :
            /\ closes[c] <= 1
            /\ conns[c] = "open" => _producer_connection = c
            /\ ends >= 1 => conns[c] /= "open")

\* A fresh connection is open after an earlier one was closed by on_consume_end.
ReopenedAfterCloseWitness ==
    /\ conns[1] = "closed"
    /\ closes[1] = 1
    /\ conns[2] = "open"
    /\ _producer_connection = 2

-----------------------------------------------------------------------------
(* Properties of startup *)

Range(f) == {f[i] : i \in DOMAIN f}

CallIndices(op) == {i \in DOMAIN calls : calls[i].op = op}

BindIndices(q, rk) ==
    {i \in CallIndices("queue.bind") : calls[i].queue = q /\ calls[i].routing_key = rk}

\* A valid mapping lists no routing key twice for a queue.
ValidQueues(queues) ==
    \A q \in DOMAIN queues :
        \A i, j \in DOMAIN queues[q] : queues[q][i] = queues[q][j] => i = j

\* C8: for a valid mapping, a get_consumers that ran to its end has declared exactly
\* one binding, to the configured exchange, for every listed (queue, routing key)
\* pair and none for a pair that is not listed.
OneBindingPerListedPair ==
    outcome = "ok" /\ ValidQueues(mq_config.queues) =>
        /\ \A q \in QueueNames, rk \in RoutingKeys :
              Cardinality(BindIndices(q, rk)) =
                  IF q \in DOMAIN mq_config.queues /\ rk \in Range(mq_config.queues[q])
                  THEN 1 ELSE 0
        /\ \A i \in CallIndices("queue.bind") : calls[i].exchange = mq_config.exchange

\* Two queues, one of them with two routing keys, all bound.
BindingsDeclaredWitness ==
    /\ outcome = "ok"
    /\ ValidQueues(mq_config.queues)
    /\ DOMAIN mq_config.queues = QueueNames
    /\ Len(mq_config.queues["q1"]) = 2
    /\ Len(mq_config.queues["q2"]) = 1
    /\ Cardinality(CallIndices("queue.bind")) = 3

\* C9: startup ordering: the exchange is declared first (durable, topic); each
\* configured queue is declared durable, once, before each of its bindings; the
\* one consumer is created after every configured queue has been declared and
\* bound, over exactly the configured queues, with auto-declare off.
StartupOrdering ==
    /\ \A i \in CallIndices("exchange.declare") :
          i = 1 /\ calls[i].durable /\ calls[i].type = "topic"
                /\ calls[i].exchange = mq_config.exchange
    /\ calls /= <<>> => calls[1].op = "exchange.declare"
    /\ \A i \in CallIndices("queue.declare") :
          /\ calls[i].durable
          /\ calls[i].queue \in DOMAIN mq_config.queues
          /\ \A j \in CallIndices("queue.declare") : calls[j].queue = calls[i].queue => i = j
    /\ \A i \in CallIndices("queue.bind") :
          \E j \in CallIndices("queue.declare") : j < i /\ calls[j].queue = calls[i].queue
    /\ \A i \in CallIndices("Consumer") :
          /\ ~calls[i].auto_declare
          /\ Range(calls[i].queues) = DOMAIN mq_config.queues
          /\ Len(calls[i].queues) = Cardinality(DOMAIN mq_config.queues)
          /\ \A j \in CallIndices("Consumer") : i = j
          /\ \A j \in CallIndices("queue.declare") \cup CallIndices("queue.bind") : j < i
          /\ \A q \in DOMAIN mq_config.queues :
                /\ \E j \in CallIndices("queue.declare") : calls[j].queue = q
                /\ \A rk \in Range(mq_config.queues[q]) : BindIndices(q, rk) /= {}
    /\ outcome = "ok" => CallIndices("Consumer") /= {}

\* A startup that ran to its end with two queues that both have bindings.
StartupCompleteWitness ==
    /\ outcome = "ok"
    /\ DOMAIN mq_config.queues = QueueNames
    /\ \A q \in QueueNames : mq_config.queues[q] /= <<>>
    /\ CallIndices("Consumer") /= {}

Falsy(s) == s \in {Absent, ""}

\* C10: construction yields an inert instance exactly when the parameters are
\* incomplete: connection and exchange are both None when mq_config is absent or
\* host, username or password is empty or absent, and both are set otherwise.
InertIffIncomplete ==
    IF mq_config = None
    THEN connection = None /\ exchange = None
    ELSE IF Falsy(mq_config.host) \/ Falsy(mq_config.username) \/ Falsy(mq_config.password)
    THEN connection = None /\ exchange = None
    ELSE /\ connection /= None /\ connection.kind = "Connection"
         /\ connection.hostname = mq_config.host
         /\ connection.userid = mq_config.username
         /\ connection.password = mq_config.password
         /\ exchange /= None /\ exchange.kind = "Exchange"
         /\ exchange.name = mq_config.exchange

\* Only the password is empty, and the instance is inert.
InertOnEmptyPasswordWitness ==
    /\ mq_config /= None
    /\ ~Falsy(mq_config.host)
    /\ ~Falsy(mq_config.username)
    /\ mq_config.password = ""
    /\ connection = None
    /\ exchange = None

-----------------------------------------------------------------------------
(* Properties of startup on a missing configuration *)

\* C11: get_consumers on an instance without configuration object fails with an
\* assertion error, and only there: no call has been issued on the channel, no
\* consumer is registered, no prefetch is set, and the session has not started.
MissingConfigFailsAssertion ==
    /\ mq_config = None /\ session > 0 =>
          /\ outcome = "AssertionError"
          /\ calls = <<>>
          /\ phase = "aborted"
          /\ prefetch = 0
    /\ outcome = "AssertionError" => mq_config = None

\* get_consumers was called without configuration object.
MissingConfigWitness ==
    /\ mq_config = None
    /\ session = 1
    /\ outcome = "AssertionError"
    /\ calls = <<>>

-----------------------------------------------------------------------------
(* Properties of the current message *)

\* C12: whenever on_message runs, self.message and self.routing_key are the body
\* and the routing key of the delivery that was just acknowledged; and the two
\* fields are always both unset or the body and the routing key of one delivery.
CurrentMessagePaired ==
    /\ \A m \in running :
          /\ message = Body(m)
          /\ routing_key = DeliveryRoutingKey(m)
          /\ msg[m] = "acked"
    /\ \/ message = None /\ routing_key = None
       \/ \E m \in Msgs : message = Body(m) /\ routing_key = DeliveryRoutingKey(m)

\* on_message runs for a second delivery, after the fields held the first one.
SecondDeliveryPairedWitness ==
    \E m, n \in Msgs :
        /\ m /= n
        /\ hookCalls[n] = 1
        /\ n \notin running
        /\ m \in running
        /\ message = Body(m)
        /\ routing_key = DeliveryRoutingKey(m)

-----------------------------------------------------------------------------
(* Properties of queues without routing keys *)

QueueBindIndices(q) == {i \in CallIndices("queue.bind") : calls[i].queue = q}

DeclaredQueues == {calls[i].queue : i \in CallIndices("queue.declare")}

\* C17 as stated: get_consumers never declares a queue whose configured routing-key
\* list is empty, and after it every declared queue has at least one binding.
DeclaredQueuesHaveRoutingKeys ==
    /\ \A q \in DeclaredQueues : mq_config.queues[q] /= <<>>
    /\ outcome = "ok" => \A q \in DeclaredQueues : QueueBindIndices(q) /= {}

\* C17, amended: a get_consumers that ran to its end has declared every configured
\* queue, whatever its routing-key list, with one bind call per entry of the list:
\* a declared queue has a binding exactly when its configured list is not empty.
QueuesDeclaredWithListedBindings ==
    outcome = "ok" =>
        /\ DeclaredQueues = DOMAIN mq_config.queues
        /\ \A q \in DeclaredQueues :
              /\ Cardinality(QueueBindIndices(q)) = Len(mq_config.queues[q])
              /\ QueueBindIndices(q) /= {} <=> mq_config.queues[q] /= <<>>

\* A queue configured with no routing key is declared and has no binding, next to
\* one that has bindings.
UnboundQueueDeclaredWitness ==
    /\ outcome = "ok"
    /\ \E q \in DeclaredQueues : mq_config.queues[q] = <<>> /\ QueueBindIndices(q) = {}
    /\ \E q \in DeclaredQueues : QueueBindIndices(q) /= {}

-----------------------------------------------------------------------------
(* Properties of a failing acknowledgment *)

\* C19: when _callback ends on a message that is not acknowledged (ack raised),
\* on_message has not been and is not invoked for that message, yet self.message
\* and self.routing_key hold the body and the routing key of that message.
AckFailureSkipsHook ==
    [][pc > 0 /\ pc' = 0 /\ cur \notin running /\ msg'[cur] /= "acked" =>
            /\ hookCalls[cur] = 0
            /\ hookCalls' = hookCalls
            /\ running' = {}
            /\ message' = Body(cur)
            /\ routing_key' = DeliveryRoutingKey(cur)
      ]_vars

\* The session was ended by a failing ack: the message is back on its queue, its
\* hook never ran, and the fields hold it.
AckFailedWitness ==
    /\ phase = "aborted"
    /\ outcome = "ok"
    /\ pc = 0
    /\ msg[cur] = "ready"
    /\ hookCalls[cur] = 0
    /\ message = Body(cur)
    /\ routing_key = DeliveryRoutingKey(cur)

-----------------------------------------------------------------------------
(* Properties of a publish connection that cannot be established *)

\* C20: when ensure_connection raises, _producer_connection stays None: a clone
\* that was not established is never cached, never closed and never used later,
\* and the next access, finding no cached connection, clones a fresh one.
FailedConnectionNotCached ==
    /\ [](\A c \in ConnIds :
            conns[c] = "connecting" => _producer_connection /= c /\ closes[c] = 0)
    /\ [][\A c \in ConnIds :
            /\ conns[c] = "none" /\ conns'[c] = "connecting" =>
                  _producer_connection = NoConn /\ _producer_connection' = NoConn
            /\ conns[c] = "connecting" => conns'[c] = "connecting"
         ]_vars
    /\ [][accesses' /= accesses /\ _producer_connection = NoConn /\ connection /= None =>
            \E c \in ConnIds : conns[c] = "none" /\ conns'[c] /= "none"]_vars

\* After a clone that could not be established, a later access has opened and
\* cached a fresh connection; nothing was closed.
FreshConnectionAfterFailureWitness ==
    /\ conns[1] = "connecting"
    /\ conns[2] = "open"
    /\ _producer_connection = 2
    /\ closes[1] = 0
    /\ closes[2] = 0

-----------------------------------------------------------------------------
(* result.py: Msg *)

AssertionError == [kind |-> "AssertionError"]

MsgCodes == {Absent, "", "E001", "W002"}
MsgTexts == {Absent, "", "disk full"}

\* Faulty variant of MsgNew: the message text is not asserted.
MsgNewUncheckedText(code, text) ==
    IF ~Truthy(code) THEN AssertionError
    ELSE [kind |-> "Msg", code |-> code, message |-> text]

\* Msg(code, message): the new object, or the assertion error __init__ raises.
MsgNew(code, text) ==
    IF ~Truthy(code) THEN AssertionError
    ELSE IF ~Truthy(text) THEN AssertionError
    ELSE [kind |-> "Msg", code |-> code, message |-> text]

\* Faulty variant of to_map: the values are stored under each other's key.
to_map_swapped(m) == [code |-> m.message, message |-> m.code]

\* Msg.to_map
to_map(m) == [code |-> m.code, message |-> m.message]

-----------------------------------------------------------------------------
(* result.py: BaseResult *)

\* Faulty variant of __nonzero__: the two values are exchanged.
__nonzero__inverted == IF success THEN 0 ELSE 1

\* BaseResult.__nonzero__
__nonzero__ == IF success THEN 1 ELSE 0

\* bool(result): the truth value of what __nonzero__ returns.
PyBool == __nonzero__ /= 0

\* "{}".format(b) for a bool b.
PyStr(b) == IF b THEN "True" ELSE "False"

\* The loop of _str_messages over enumerate(messages, start=1), from index i on.
RECURSIVE StrEntries(_, _)
StrEntries(messages, i) ==
    IF i > Len(messages) THEN ""
    ELSE "(" \o ToString(i) \o ") [" \o messages[i].code \o "] " \o messages[i].message
            \o StrEntries(messages, i + 1)

\* Faulty variant of _str_messages: the header is written for an empty list too.
_str_messages_always_header(messages, name) ==
    " " \o name \o " messages are:" \o StrEntries(messages, 1)

\* BaseResult._str_messages
_str_messages(messages, name) ==
    (IF messages /= <<>> THEN " " \o name \o " messages are:" ELSE "")
        \o StrEntries(messages, 1)

\* BaseResult.__str__
__str__ ==
    result_class._result_name \o " response is " \o PyStr(success) \o "."
        \o (IF Truthy(started) THEN " Started: " \o started ELSE "")
        \o (IF Truthy(ended) THEN " Ended: " \o ended ELSE "")
        \o _str_messages(infos, "Informational")
        \o _str_messages(warnings, "Warning")
        \o _str_messages(errors, "Error")
        \o result_class._addl_str

-----------------------------------------------------------------------------
(* A result in use by its caller *)

ResultClasses == {BaseResultClass, ResultClass("Harvest", " Harvested.")}
StartTimes == {"2015-10-26 09:00:00"}
EndTimes == {"2015-10-26 09:30:00"}
ListNames == {"infos", "warnings", "errors"}

Appended == Len(infos) + Len(warnings) + Len(errors)

\* The caller assigns result.success.
SetSuccess(b) ==
    /\ success' = b
    /\ observed' = NoCall
    /\ UNCHANGED <<result_class, started, ended, infos, warnings, errors>>
    /\ UNCHANGED consumerVars

\* The caller assigns result.started.
SetStarted(t) ==
    /\ started' = t
    /\ observed' = NoCall
    /\ UNCHANGED <<result_class, success, ended, infos, warnings, errors>>
    /\ UNCHANGED consumerVars

\* The caller assigns result.ended.
SetEnded(t) ==
    /\ ended' = t
    /\ observed' = NoCall
    /\ UNCHANGED <<result_class, success, started, infos, warnings, errors>>
    /\ UNCHANGED consumerVars

\* The caller runs result.<list>.append(Msg(code, text)): when Msg raises, nothing
\* is appended.
AppendMsg(list, code, text) ==
    /\ observed' = [op |-> "Msg", code |-> code, message |-> text,
                    result |-> MsgNew(code, text)]
    /\ IF MsgNew(code, text) = AssertionError
       THEN UNCHANGED <<infos, warnings, errors>>
       ELSE /\ Appended < MaxAppends
            /\ infos' = IF list = "infos" THEN Append(infos, MsgNew(code, text)) ELSE infos
            /\ warnings' = IF list = "warnings" THEN Append(warnings, MsgNew(code, text))
                           ELSE warnings
            /\ errors' = IF list = "errors" THEN Append(errors, MsgNew(code, text)) ELSE errors
    /\ UNCHANGED <<result_class, success, started, ended>>
    /\ UNCHANGED consumerVars

\* The caller tests the result in a boolean context.
Bool ==
    /\ observed' = [op |-> "bool", value |-> PyBool]
    /\ UNCHANGED <<result_class, success, started, ended, infos, warnings, errors>>
    /\ UNCHANGED consumerVars

\* The caller renders the result with str().
Str ==
    /\ observed' = [op |-> "str", value |-> __str__]
    /\ UNCHANGED <<result_class, success, started, ended, infos, warnings, errors>>
    /\ UNCHANGED consumerVars

AllMsgs == Range(infos) \cup Range(warnings) \cup Range(errors)

\* The caller exports a message of the result with to_map().
ToMap(m) ==
    /\ m \in AllMsgs
    /\ observed' = [op |-> "to_map", msg |-> m, value |-> to_map(m)]
    /\ UNCHANGED <<result_class, success, started, ended, infos, warnings, errors>>
    /\ UNCHANGED consumerVars

ResultInit ==
    /\ ConsumerInit(None)
    /\ \E cls \in ResultClasses : BaseResultInit(cls)

ResultNext ==
    \/ \E b \in BOOLEAN : SetSuccess(b)
    \/ \E t \in StartTimes : SetStarted(t)
    \/ \E t \in EndTimes : SetEnded(t)
    \/ \E list \in ListNames, code \in MsgCodes, text \in MsgTexts : AppendMsg(list, code, text)
    \/ Bool
    \/ Str
    \/ \E m \in AllMsgs : ToMap(m)

ResultSpec == ResultInit /\ [][ResultNext]_vars

-----------------------------------------------------------------------------
(* Properties of BaseResult and Msg *)

\* C13: the truthiness of a result equals its success flag: bool(result) is true
\* when success is true and false when success is false, whatever was assigned
\* to success before.
TruthinessIsSuccess ==
    observed.op = "bool" =>
        /\ observed.value \in BOOLEAN
        /\ observed.value = success

\* A result that was set to failure, with no error message, tests false.
FalseResultWitness ==
    /\ observed.op = "bool"
    /\ success = FALSE
    /\ observed.value = FALSE
    /\ errors = <<>>

\* C14: Msg(code, message) fails exactly when the code or the text is empty or
\* absent, and then nothing is produced or appended; every Msg there is has a
\* non-empty code and a non-empty text.
MsgConstructionChecked ==
    /\ [](observed.op = "Msg" =>
            /\ observed.result = AssertionError
                  <=> Falsy(observed.code) \/ Falsy(observed.message)
            /\ observed.result /= AssertionError =>
                  observed.result.kind = "Msg" /\ observed.result \in AllMsgs)
    /\ [](\A m \in AllMsgs :
            m.kind = "Msg" /\ ~Falsy(m.code) /\ ~Falsy(m.message))
    /\ [][observed'.op = "Msg" /\ observed'.result = AssertionError =>
            UNCHANGED <<infos, warnings, errors>>]_vars

\* A Msg with a code and an empty text was refused, after another was accepted.
MsgRefusedWitness ==
    /\ observed.op = "Msg"
    /\ observed.code = "E001"
    /\ observed.message = ""
    /\ observed.result = AssertionError
    /\ AllMsgs /= {}

RECURSIVE Concat(_)
Concat(parts) == IF parts = <<>> THEN "" ELSE Head(parts) \o Concat(Tail(parts))

\* A message list as the claim describes it: nothing for an empty list, else
\* the header and the entries (index) [code] message, numbered from 1.
MessageBlock(messages, name) ==
    IF messages = <<>> THEN ""
    ELSE " " \o name \o " messages are:"
            \o Concat([i \in 1 .. Len(messages) |->
                           "(" \o ToString(i) \o ") [" \o messages[i].code \o "] "
                               \o messages[i].message])

\* C15: str(result) is, in this order: the status line with the result name and
\* success, the start timestamp if set, the end timestamp if set, the info, the
\* warning and the error messages, each list only when it is not empty, and the
\* trailer of the class; a result without messages renders no message block.
RenderedInOrder ==
    observed.op = "str" =>
        /\ observed.value =
              Concat(<<result_class._result_name \o " response is "
                           \o (IF success THEN "True" ELSE "False") \o ".",
                       IF started = Absent THEN "" ELSE " Started: " \o started,
                       IF ended = Absent THEN "" ELSE " Ended: " \o ended,
                       MessageBlock(infos, "Informational"),
                       MessageBlock(warnings, "Warning"),
                       MessageBlock(errors, "Error"),
                       result_class._addl_str>>)
        /\ result_class = BaseResultClass /\ success /\ started = Absent
              /\ ended = Absent /\ infos = <<>> /\ warnings = <<>> =>
                 /\ errors = <<>> => observed.value = " response is True."
                 /\ errors = <<MsgNew("E001", "disk full")>> =>
                       observed.value =
                           " response is True. Error messages are:(1) [E001] disk full"

\* A result with both timestamps and a message in each list was rendered.
RenderedAllBlocksWitness ==
    /\ observed.op = "str"
    /\ started /= Absent
    /\ ended /= Absent
    /\ infos /= <<>>
    /\ warnings /= <<>>
    /\ errors /= <<>>

\* C16: a new result has success true, no timestamps and three empty lists, and a
\* step that changes a message list leaves success as it is: success stays true
\* however many errors are appended.
FreshResultAndSuccessKept ==
    /\ success = TRUE /\ started = Absent /\ ended = Absent
    /\ infos = <<>> /\ warnings = <<>> /\ errors = <<>>
    /\ [][infos' /= infos \/ warnings' /= warnings \/ errors' /= errors =>
            success' = success]_vars
    /\ [][success /= success' => UNCHANGED <<infos, warnings, errors>>]_vars

\* Two errors were appended and success is still true.
ErrorsWithSuccessWitness ==
    /\ Len(errors) >= 2
    /\ success = TRUE

\* C18: for a Msg built from a non-empty code c and text m, to_map is exactly
\* {code: c, message: m}; a Msg built from that map has the same to_map; and the
\* Msg that was exported is still in the result as it was.
ToMapRoundTrip ==
    /\ observed.op = "Msg" /\ observed.result /= AssertionError =>
          /\ to_map(observed.result) =
                [code |-> observed.code, message |-> observed.message]
          /\ DOMAIN to_map(observed.result) = {"code", "message"}
          /\ MsgNew(to_map(observed.result).code, to_map(observed.result).message)
                /= AssertionError
          /\ to_map(MsgNew(to_map(observed.result).code,
                           to_map(observed.result).message))
                = to_map(observed.result)
    /\ observed.op = "to_map" =>
          /\ observed.value = [code |-> observed.msg.code, message |-> observed.msg.message]
          /\ observed.msg \in AllMsgs

\* Msg("E001", "disk full") was exported.
ToMapExportedWitness ==
    /\ observed.op = "to_map"
    /\ observed.msg = MsgNew("E001", "disk full")
    /\ observed.value = [code |-> "E001", message |-> "disk full"]

=============================================================================
